---------------------------- MODULE Spec2Model ----------------------------
(***************************************************************************)
(* Model of the `defy!` procedural macro (SOF3/defy): the parser of        *)
(* src/ast.rs and the emitter of src/lib.rs.                               *)
(*                                                                         *)
(* A token is a record [t, sp, ts]: t is the token's text, sp its span     *)
(* (the index of the token in the macro's input, 0 for Span::call_site())  *)
(* and ts the inner token stream of a delimited group (t = "{" or "(").    *)
(* A token stream is a sequence of tokens.  Expressions and patterns are   *)
(* opaque to the macro and are modelled as single atoms.                   *)
(***************************************************************************)
EXTENDS Naturals, Sequences, FiniteSets, TLC

VARIABLES
    src,      \* the macro's input, flat token texts in source order
    pc,       \* position inside defy/run
    input,    \* Result<ast::Input> of syn::parse2
    configs,  \* the part of input.configs the for loop of run has yet to visit
    config,   \* the Config of run: [debug_print, macro_path]
    output,   \* Result<TokenStream> of emit
    stdout,   \* what println! wrote
    ret       \* the token stream defy returns

vars == <<src, pc, input, configs, config, output, stdout, ret>>

-----------------------------------------------------------------------------
(* Bounds of the input families. *)

MaxSize == 4      \* statements, arms and else blocks of a generated body
MaxArgs == 3      \* arguments of a generated node
MaxConfigs == 2   \* directives of a generated input

-----------------------------------------------------------------------------
(* Token vocabulary. *)

Keywords == {"if", "else", "match", "for", "in", "let"}
Idents == {"a", "b", "x", "br", "div", "my", "html", "yew", "data",
           "__debug_print", "macro_path"}
ExprAtoms == {"e1", "e2"} \cup Idents
PatAtoms == {"p1"} \cup Idents

None == <<>>
Some(x) == <<x>>

Tok(t, sp) == [t |-> t, sp |-> sp, ts |-> <<>>]
Group(d, sp, ts) == [t |-> d, sp |-> sp, ts |-> ts]
Close(d) == IF d = "{" THEN "}" ELSE ")"

(* The token tree the compiler's front end hands to the macro: every token *)
(* carries its source position, a delimited group holds its inner stream.  *)
RECURSIVE LexFrom(_, _, _)
LexFrom(flat, i, acc) ==
    IF i > Len(flat) \/ flat[i] \in {"}", ")"}
    THEN [ts |-> acc, i |-> i]
    ELSE IF flat[i] \in {"{", "("}
         THEN LET inner == LexFrom(flat, i + 1, <<>>)
              IN LexFrom(flat, inner.i + 1, Append(acc, Group(flat[i], i, inner.ts)))
         ELSE LexFrom(flat, i + 1, Append(acc, Tok(flat[i], i)))

Lex(flat) == LexFrom(flat, 1, <<>>).ts


-----------------------------------------------------------------------------
(* syn's ParseStream: a buffer [ts, end] read at a cursor i.  A parse      *)
(* function returns Ok(value, next cursor) or the first error met.         *)

SyntaxError == "syntax error"
OrderingViolation == "let statements must precede all other statements in a block"

Ok(v, i) == [ok |-> TRUE, v |-> v, i |-> i, err |-> None]
Err(sp, msg) == [ok |-> FALSE, v |-> None, i |-> 0, err |-> Some([sp |-> sp, msg |-> msg])]

Buffer(ts, end) == [ts |-> ts, end |-> end]
Inner(g) == Buffer(g.ts, g.sp)
IsEmpty(buf, i) == i > Len(buf.ts)
SpanAt(buf, i) == IF i <= Len(buf.ts) THEN buf.ts[i].sp ELSE buf.end
Peek(buf, i, t) == i <= Len(buf.ts) /\ buf.ts[i].t = t
PeekIn(buf, i, set) == i <= Len(buf.ts) /\ buf.ts[i].t \in set

(* input.parse::<Token![..]>() and the custom keywords *)
ParseTok(buf, i, t) ==
    IF Peek(buf, i, t) THEN Ok(buf.ts[i], i + 1) ELSE Err(SpanAt(buf, i), SyntaxError)

(* syn::Ident rejects keywords; Ident::parse_any accepts them *)
ParseIdent(buf, i) ==
    IF PeekIn(buf, i, Idents) THEN Ok(buf.ts[i], i + 1) ELSE Err(SpanAt(buf, i), SyntaxError)

ParseAnyIdent(buf, i) ==
    IF PeekIn(buf, i, Idents \cup Keywords) THEN Ok(buf.ts[i], i + 1)
    ELSE Err(SpanAt(buf, i), SyntaxError)

(* syn::Expr and syn::Pat: one opaque atom *)
ParseExpr(buf, i) ==
    IF PeekIn(buf, i, ExprAtoms) THEN Ok(buf.ts[i], i + 1) ELSE Err(SpanAt(buf, i), SyntaxError)

ParsePat(buf, i) ==
    IF PeekIn(buf, i, PatAtoms) THEN Ok(buf.ts[i], i + 1) ELSE Err(SpanAt(buf, i), SyntaxError)

(* syn::braced!, syn::parenthesized! *)
ParseGroup(buf, i, d) ==
    IF Peek(buf, i, d) THEN Ok(buf.ts[i], i + 1) ELSE Err(SpanAt(buf, i), SyntaxError)

(* The `?` operator: the first error ends the function, otherwise the      *)
(* rest K goes on with the value.                                          *)
Try(r, K(_)) == IF r.ok THEN K(r) ELSE r

(* The segment loop of a path: ident, then `::` ident while `::` follows.  *)
(* Generic arguments are left out of the model.                            *)
RECURSIVE PathSegments(_, _, _)
PathSegments(buf, i, acc) ==
    Try(ParseIdent(buf, i), LAMBDA ident :
    IF Peek(buf, ident.i, "::")
    THEN PathSegments(buf, ident.i + 1, acc \o <<ident.v, buf.ts[ident.i]>>)
    ELSE Ok(acc \o <<ident.v>>, ident.i))

parse_path_without_paren(buf, i) ==
    IF Peek(buf, i, "::") THEN PathSegments(buf, i + 1, <<buf.ts[i]>>)
    ELSE PathSegments(buf, i, <<>>)

(* syn::Path as the macro_path directive reads it *)
Path_parse(buf, i) ==
    IF Peek(buf, i, "::") THEN PathSegments(buf, i + 1, <<buf.ts[i]>>)
    ELSE PathSegments(buf, i, <<>>)

Config_parse(buf, i) ==
    Try(ParseTok(buf, i, "@"), LAMBDA at :
    IF Peek(buf, at.i, "__debug_print")
    THEN Ok([kind |-> "DebugPrint", at |-> at.v, kw |-> buf.ts[at.i]], at.i + 1)
    ELSE IF Peek(buf, at.i, "macro_path")
    THEN Try(Path_parse(buf, at.i + 1), LAMBDA path :
         Ok([kind |-> "MacroPath", at |-> at.v, kw |-> buf.ts[at.i], path |-> path.v],
            path.i))
    ELSE Err(SpanAt(buf, at.i), SyntaxError))

(* the `while input.peek(Token![@]) { configs.push(input.parse()?) }` of Input::parse *)
RECURSIVE Configs_parse(_, _, _)
Configs_parse(buf, i, acc) ==
    IF Peek(buf, i, "@")
    THEN Try(Config_parse(buf, i), LAMBDA c : Configs_parse(buf, c.i, Append(acc, c.v)))
    ELSE Ok(acc, i)

Let_parse(buf, i) ==
    Try(ParseTok(buf, i, "let"), LAMBDA let_ :
    Try(ParsePat(buf, let_.i), LAMBDA pat :
    Try(ParseTok(buf, pat.i, "="), LAMBDA eq :
    Try(ParseExpr(buf, eq.i), LAMBDA expr :
    Try(ParseTok(buf, expr.i, ";"), LAMBDA semi :
    Ok([kind |-> "Let", let_ |-> let_.v, pat |-> pat.v, eq |-> eq.v,
        expr |-> expr.v, semi |-> semi.v], semi.i))))))

Text_parse(buf, i) ==
    Try(ParseTok(buf, i, "+"), LAMBDA add :
    Try(ParseExpr(buf, add.i), LAMBDA expr :
    Try(ParseTok(buf, expr.i, ";"), LAMBDA semi :
    Ok([kind |-> "Text", add |-> add.v, expr |-> expr.v, semi |-> semi.v], semi.i))))

(* Punctuated::parse_separated_nonempty_with(input, Ident::parse_any) *)
RECURSIVE ArgIdent_parse(_, _, _)
ArgIdent_parse(buf, i, acc) ==
    Try(ParseAnyIdent(buf, i), LAMBDA ident :
    IF Peek(buf, ident.i, "-")
    THEN ArgIdent_parse(buf, ident.i + 1, acc \o <<ident.v, buf.ts[ident.i]>>)
    ELSE Ok(acc \o <<ident.v>>, ident.i))

NodeArg_parse(buf, i) ==
    Try(ArgIdent_parse(buf, i, <<>>), LAMBDA ident :
    IF Peek(buf, ident.i, "=")
    THEN Try(ParseExpr(buf, ident.i + 1), LAMBDA value :
         Ok([ident |-> ident.v, value |-> Some(<<buf.ts[ident.i], value.v>>)], value.i))
    ELSE Ok([ident |-> ident.v, value |-> None], ident.i))

(* Punctuated::parse_terminated: values separated by `,`, a trailing `,` allowed *)
RECURSIVE Args_parse_terminated(_, _, _)
Args_parse_terminated(buf, i, acc) ==
    IF IsEmpty(buf, i) THEN Ok(acc, i)
    ELSE Try(NodeArg_parse(buf, i), LAMBDA value :
         IF IsEmpty(buf, value.i) THEN Ok(Append(acc, value.v), value.i)
         ELSE Try(ParseTok(buf, value.i, ","), LAMBDA punct :
              Args_parse_terminated(buf, punct.i, Append(acc, value.v))))

NodeArgs_parse(buf, i) ==
    IF Peek(buf, i, "=")
    THEN Try(ParseExpr(buf, i + 1), LAMBDA arg :
         Ok([kind |-> "Rest", eq |-> buf.ts[i], arg |-> arg.v], arg.i))
    ELSE IF Peek(buf, i, "(")
    THEN Try(Args_parse_terminated(Inner(buf.ts[i]), 1, <<>>), LAMBDA args :
         Ok([kind |-> "Named", paren |-> [span |-> buf.ts[i].sp], args |-> args.v], i + 1))
    ELSE IF Peek(buf, i, "{") \/ Peek(buf, i, ";")
    THEN Ok([kind |-> "None"], i)
    ELSE Err(SpanAt(buf, i), SyntaxError)

RECURSIVE Nodes_parse(_, _), Stmt_parse(_, _), If_parse(_, _), Else_parse(_, _),
          Match_parse(_, _), Arms_parse(_, _), Arm_parse(_, _), For_parse(_, _),
          Node_parse(_, _), NodeBody_parse(_, _)

(* Nodes::parse: statements until the buffer is empty *)
Nodes_parse(buf, i) ==
    IF IsEmpty(buf, i) THEN Ok([stmts |-> <<>>], i)
    ELSE Try(Stmt_parse(buf, i), LAMBDA stmt :
         Try(Nodes_parse(buf, stmt.i), LAMBDA rest :
         Ok([stmts |-> <<stmt.v>> \o rest.v.stmts], rest.i)))

Stmt_parse(buf, i) ==
    IF Peek(buf, i, "if") THEN If_parse(buf, i)
    ELSE IF Peek(buf, i, "match") THEN Match_parse(buf, i)
    ELSE IF Peek(buf, i, "for") THEN For_parse(buf, i)
    ELSE IF Peek(buf, i, "let") THEN Let_parse(buf, i)
    ELSE IF Peek(buf, i, "+") THEN Text_parse(buf, i)
    ELSE IF PeekIn(buf, i, Idents) THEN Node_parse(buf, i)
    ELSE Err(SpanAt(buf, i), SyntaxError)

Else_parse(buf, i) ==
    Try(ParseTok(buf, i, "else"), LAMBDA else_ :
    Try(ParseGroup(buf, else_.i, "{"), LAMBDA braces :
    Try(Nodes_parse(Inner(braces.v), 1), LAMBDA body :
    Ok([else_ |-> else_.v, braces |-> [span |-> braces.v.sp], body |-> body.v], braces.i))))

If_parse(buf, i) ==
    Try(ParseTok(buf, i, "if"), LAMBDA if_ :
    Try(ParseExpr(buf, if_.i), LAMBDA expr :
    Try(ParseGroup(buf, expr.i, "{"), LAMBDA braces :
    Try(Nodes_parse(Inner(braces.v), 1), LAMBDA body :
    Try(IF Peek(buf, braces.i, "else")
        THEN Try(Else_parse(buf, braces.i), LAMBDA e : Ok(Some(e.v), e.i))
        ELSE Ok(None, braces.i), LAMBDA else_ :
    Ok([kind |-> "If", if_ |-> if_.v, expr |-> expr.v, braces |-> [span |-> braces.v.sp],
        body |-> body.v, else_ |-> else_.v], else_.i))))))

Arm_parse(buf, i) ==
    Try(ParsePat(buf, i), LAMBDA pat :
    Try(IF Peek(buf, pat.i, "if")
        THEN Try(ParseExpr(buf, pat.i + 1), LAMBDA expr :
             Ok(Some(<<buf.ts[pat.i], expr.v>>), expr.i))
        ELSE Ok(None, pat.i), LAMBDA guard :
    Try(ParseTok(buf, guard.i, "=>"), LAMBDA fat_arrow :
    Try(ParseGroup(buf, fat_arrow.i, "{"), LAMBDA braces :
    Try(Nodes_parse(Inner(braces.v), 1), LAMBDA body :
    Ok([pat |-> pat.v, guard |-> guard.v, fat_arrow |-> fat_arrow.v,
        braces |-> [span |-> braces.v.sp], body |-> body.v], braces.i))))))

(* the `while !inner.is_empty() { arms.push(inner.parse()?) }` of Match::parse *)
Arms_parse(buf, i) ==
    IF IsEmpty(buf, i) THEN Ok(<<>>, i)
    ELSE Try(Arm_parse(buf, i), LAMBDA arm :
         Try(Arms_parse(buf, arm.i), LAMBDA rest :
         Ok(<<arm.v>> \o rest.v, rest.i)))

Match_parse(buf, i) ==
    Try(ParseTok(buf, i, "match"), LAMBDA match_ :
    Try(ParseExpr(buf, match_.i), LAMBDA expr :
    Try(ParseGroup(buf, expr.i, "{"), LAMBDA braces :
    Try(Arms_parse(Inner(braces.v), 1), LAMBDA arms :
    Ok([kind |-> "Match", match_ |-> match_.v, expr |-> expr.v,
        braces |-> [span |-> braces.v.sp], arms |-> arms.v], braces.i)))))

For_parse(buf, i) ==
    Try(ParseTok(buf, i, "for"), LAMBDA for_ :
    Try(ParsePat(buf, for_.i), LAMBDA pat :
    Try(ParseTok(buf, pat.i, "in"), LAMBDA in_ :
    Try(ParseExpr(buf, in_.i), LAMBDA iter :
    Try(ParseGroup(buf, iter.i, "{"), LAMBDA braces :
    Try(Nodes_parse(Inner(braces.v), 1), LAMBDA body :
    Ok([kind |-> "For", for_ |-> for_.v, pat |-> pat.v, in_ |-> in_.v, iter |-> iter.v,
        braces |-> [span |-> braces.v.sp], body |-> body.v], braces.i)))))))

NodeBody_parse(buf, i) ==
    IF Peek(buf, i, ";") THEN Ok([kind |-> "Semi", semi |-> buf.ts[i]], i + 1)
    ELSE IF Peek(buf, i, "{")
    THEN Try(Nodes_parse(Inner(buf.ts[i]), 1), LAMBDA children :
         Ok([kind |-> "Braced", braces |-> [span |-> buf.ts[i].sp],
             children |-> children.v], i + 1))
    ELSE Err(SpanAt(buf, i), SyntaxError)

Node_parse(buf, i) ==
    Try(parse_path_without_paren(buf, i), LAMBDA element :
    Try(NodeArgs_parse(buf, element.i), LAMBDA args :
    Try(NodeBody_parse(buf, args.i), LAMBDA body :
    Ok([kind |-> "Node", element |-> element.v, args |-> args.v, body |-> body.v], body.i))))

(* Input::parse: the leading `@` directives, then the root Nodes *)
Input_parse(buf) ==
    Try(Configs_parse(buf, 1, <<>>), LAMBDA cs :
    Try(Nodes_parse(buf, cs.i), LAMBDA nodes :
    Ok([configs |-> cs.v, nodes |-> nodes.v], nodes.i)))

(* syn::parse2 *)
parse2(ts) == Input_parse(Buffer(ts, 0))

-----------------------------------------------------------------------------
(* The emitter of src/lib.rs.  quote_spanned! gives the tokens it writes   *)
(* the span it is handed; interpolated tokens keep their own spans.        *)

EOk(ts) == [ok |-> TRUE, ts |-> ts, err |-> None]
EErr(sp, msg) == [ok |-> FALSE, ts |-> <<>>, err |-> Some([sp |-> sp, msg |-> msg])]

call_site == 0

(* syn::parse2(quote!(::yew::html)).unwrap() *)
DefaultMacroPath ==
    <<Tok("::", call_site), Tok("yew", call_site), Tok("::", call_site), Tok("html", call_site)>>

RECURSIVE Flatten(_)
Flatten(seqs) == IF seqs = <<>> THEN <<>> ELSE Head(seqs) \o Flatten(Tail(seqs))

(* LeadingLets with an `if let` in place of the `while let` *)
LeadingLets_first(stmts) ==
    IF stmts # <<>> /\ Head(stmts).kind = "Let" THEN 1 ELSE 0

(* the `while let Some(Stmt::Let(..)) = stmts.peek()` loop: how many       *)
(* statements it takes from the front                                      *)
RECURSIVE LeadingLets(_)
LeadingLets(stmts) ==
    IF stmts # <<>> /\ Head(stmts).kind = "Let" THEN 1 + LeadingLets(Tail(stmts)) ELSE 0

(* quote_spanned! { let_.span() => #let_ #pat #eq #expr #semi } *)
LocalTokens(stmt) == <<stmt.let_, stmt.pat, stmt.eq, stmt.expr, stmt.semi>>

(* FragmentCall with the children in reverse order *)
FragmentCall_rev(macro_path, span, locals, node_html) ==
    Flatten(locals)
    \o macro_path
    \o <<Tok("!", span),
         Group("{", span,
               <<Tok("<", span), Tok(">", span)>>
               \o Flatten([k \in 1..Len(node_html) |-> node_html[Len(node_html) + 1 - k]])
               \o <<Tok("<", span), Tok("/", span), Tok(">", span)>>)>>

(* FragmentCall with #(#locals)* written inside the macro call *)
FragmentCall_inside(macro_path, span, locals, node_html) ==
    macro_path
    \o <<Tok("!", span),
         Group("{", span,
               Flatten(locals)
               \o <<Tok("<", span), Tok(">", span)>>
               \o Flatten(node_html)
               \o <<Tok("<", span), Tok("/", span), Tok(">", span)>>)>>

(* the final quote_spanned! of emit *)
FragmentCall(macro_path, span, locals, node_html) ==
    Flatten(locals)
    \o macro_path
    \o <<Tok("!", span),
         Group("{", span,
               <<Tok("<", span), Tok(">", span)>>
               \o Flatten(node_html)
               \o <<Tok("<", span), Tok("/", span), Tok(">", span)>>)>>

IfElseHtml(stmt, if_body, else_body) ==
    LET else_ == stmt.else_[1]
        if_part == <<stmt.if_, stmt.expr, Group("{", stmt.braces.span, if_body)>>
        else_part == <<else_.else_, Group("{", else_.braces.span, else_body)>>
    IN <<Group("{", stmt.if_.sp, if_part \o else_part)>>

(* IfHtml with `else {}`, a unit value, for the missing else *)
IfHtml_unit(macro_path, stmt, body) ==
    LET sp == stmt.if_.sp IN
    <<Group("{", sp,
            <<stmt.if_, stmt.expr, Group("{", sp, body), Tok("else", sp), Group("{", sp, <<>>)>>)>>

(* IfHtml with the built-in path, not the resolved one, in the empty call *)
IfHtml_default(macro_path, stmt, body) ==
    LET sp == stmt.if_.sp IN
    <<Group("{", sp,
            <<stmt.if_, stmt.expr, Group("{", sp, body), Tok("else", sp),
              Group("{", sp, DefaultMacroPath \o <<Tok("!", sp), Group("{", sp, <<>>)>>)>>)>>

IfHtml(macro_path, stmt, body) ==
    LET sp == stmt.if_.sp IN
    <<Group("{", sp,
            <<stmt.if_, stmt.expr, Group("{", sp, body), Tok("else", sp),
              Group("{", sp, macro_path \o <<Tok("!", sp), Group("{", sp, <<>>)>>)>>)>>

ArmHtml(arm, body) ==
    LET guard == IF arm.guard = None THEN <<>> ELSE arm.guard[1] IN
    <<arm.pat>> \o guard \o <<arm.fat_arrow, Group("{", arm.braces.span, body)>>

MatchHtml(stmt, arms) ==
    LET sp == stmt.braces.span IN
    <<Group("{", sp, <<stmt.match_, stmt.expr, Group("{", sp, arms)>>)>>

ForHtml(stmt, body) ==
    LET sp == stmt.in_.sp IN
    <<Group("{", sp,
            <<stmt.for_, Tok("::std::iter::IntoIterator::into_iter", sp),
              Group("(", sp, <<stmt.iter>>), Tok(".", sp), Tok("map", sp),
              Group("(", sp, <<Tok("|", sp), stmt.pat, Tok("|", sp), Group("{", sp, body)>>)>>)>>

TextHtml(stmt) == <<Group("{", stmt.add.sp, <<stmt.expr>>)>>

(* NodeHtml that writes a node with an empty Block as a self-closing tag *)
NodeHtml_selfclose(stmt, args, children) ==
    IF stmt.body.kind = "Semi"
    THEN LET sp == stmt.body.semi.sp IN
         <<Tok("<", sp)>> \o stmt.element \o args \o <<Tok("/", sp), Tok(">", sp)>>
    ELSE LET sp == stmt.body.braces.span IN
         IF stmt.body.children.stmts = <<>>
         THEN <<Tok("<", sp)>> \o stmt.element \o args \o <<Tok("/", sp), Tok(">", sp)>>
         ELSE <<Tok("<", sp)>> \o stmt.element \o args
              \o <<Tok(">", sp), Group("{", sp, children), Tok("<", sp), Tok("/", sp)>>
              \o stmt.element \o <<Tok(">", sp)>>

NodeHtml(stmt, args, children) ==
    IF stmt.body.kind = "Semi"
    THEN LET sp == stmt.body.semi.sp IN
         <<Tok("<", sp)>> \o stmt.element \o args \o <<Tok("/", sp), Tok(">", sp)>>
    ELSE LET sp == stmt.body.braces.span IN
         <<Tok("<", sp)>> \o stmt.element \o args
         \o <<Tok(">", sp), Group("{", sp, children), Tok("<", sp), Tok("/", sp)>>
         \o stmt.element \o <<Tok(">", sp)>>

(* ArgHtml that writes a shorthand argument as `name = {name}` *)
ArgHtml_named(arg) ==
    IF arg.value = None
    THEN arg.ident \o <<Tok("=", arg.ident[1].sp), Group("{", arg.ident[1].sp, arg.ident)>>
    ELSE LET eq == arg.value[1][1]
             value == arg.value[1][2]
         IN arg.ident \o <<Tok("=", eq.sp), Group("{", eq.sp, <<value>>)>>

(* the closure of args_to_html: one NodeArg *)
ArgHtml(arg) ==
    IF arg.value = None
    THEN <<Group("{", arg.ident[1].sp, arg.ident)>>
    ELSE LET eq == arg.value[1][1]
             value == arg.value[1][2]
         IN arg.ident \o <<Tok("=", eq.sp), Group("{", eq.sp, <<value>>)>>

(* args_to_html that walks the arguments from the last to the first *)
args_to_html_rev(args) ==
    IF args.kind = "None" THEN EOk(<<>>)
    ELSE IF args.kind = "Named"
    THEN EOk(Flatten([k \in 1..Len(args.args) |-> ArgHtml(args.args[Len(args.args) + 1 - k])]))
    ELSE EOk(<<Tok("..", args.eq.sp), args.arg>>)

args_to_html(args) ==
    IF args.kind = "None" THEN EOk(<<>>)
    ELSE IF args.kind = "Named"
    THEN EOk(Flatten([k \in 1..Len(args.args) |-> ArgHtml(args.args[k])]))
    ELSE EOk(<<Tok("..", args.eq.sp), args.arg>>)

RECURSIVE emit(_, _, _), stmt_to_html(_, _), NodesHtml(_, _, _), ArmsHtml(_, _, _)

(* NodesHtml with filter_map(Result::ok) in place of collect::<Result<_>>() *)
RECURSIVE NodesHtml_skip(_, _, _)
NodesHtml_skip(macro_path, stmts, acc) ==
    IF stmts = <<>> THEN EOk(acc)
    ELSE NodesHtml_skip(macro_path, Tail(stmts),
                        IF stmt_to_html(macro_path, Head(stmts)).ok
                        THEN Append(acc, stmt_to_html(macro_path, Head(stmts)).ts)
                        ELSE acc)

(* NodesHtml that lowers the statements from the last to the first, so *)
(* that the error it stops at is that of the last failing statement    *)
RECURSIVE NodesHtml_last(_, _, _)
NodesHtml_last(macro_path, stmts, acc) ==
    IF stmts = <<>> THEN EOk(acc)
    ELSE Try(NodesHtml_last(macro_path, Tail(stmts), <<>>), LAMBDA rest :
         Try(stmt_to_html(macro_path, Head(stmts)), LAMBDA html :
         EOk(acc \o <<html.ts>> \o rest.ts)))

(* stmts.map(|stmt| stmt_to_html(macro_path, stmt)).collect::<Result<Vec<_>>>():  *)
(* the statements in order, stopping at the first error                           *)
NodesHtml(macro_path, stmts, acc) ==
    IF stmts = <<>> THEN EOk(acc)
    ELSE Try(stmt_to_html(macro_path, Head(stmts)), LAMBDA html :
         NodesHtml(macro_path, Tail(stmts), Append(acc, html.ts)))

(* arms.into_iter().map(..).collect::<Result<TokenStream>>() *)
ArmsHtml(macro_path, arms, acc) ==
    IF arms = <<>> THEN EOk(acc)
    ELSE Try(emit(macro_path, Head(arms).braces.span, Head(arms).body), LAMBDA body :
         ArmsHtml(macro_path, Tail(arms), acc \o ArmHtml(Head(arms), body.ts)))

emit(macro_path, span, nodes) ==
    LET n == LeadingLets(nodes.stmts)
        locals == [k \in 1..n |-> LocalTokens(nodes.stmts[k])]
        stmts == SubSeq(nodes.stmts, n + 1, Len(nodes.stmts))
    IN Try(NodesHtml(macro_path, stmts, <<>>), LAMBDA node_html :
       EOk(FragmentCall(macro_path, span, locals, node_html.ts)))

stmt_to_html(macro_path, stmt) ==
    IF stmt.kind = "If" /\ stmt.else_ # None
    THEN Try(emit(macro_path, stmt.braces.span, stmt.body), LAMBDA if_body :
         Try(emit(macro_path, stmt.else_[1].braces.span, stmt.else_[1].body), LAMBDA else_body :
         EOk(IfElseHtml(stmt, if_body.ts, else_body.ts))))
    ELSE IF stmt.kind = "If"
    THEN Try(emit(macro_path, stmt.braces.span, stmt.body), LAMBDA body :
         EOk(IfHtml(macro_path, stmt, body.ts)))
    ELSE IF stmt.kind = "Match"
    THEN Try(ArmsHtml(macro_path, stmt.arms, <<>>), LAMBDA arms :
         EOk(MatchHtml(stmt, arms.ts)))
    ELSE IF stmt.kind = "For"
    THEN Try(emit(macro_path, stmt.braces.span, stmt.body), LAMBDA body :
         EOk(ForHtml(stmt, body.ts)))
    ELSE IF stmt.kind = "Let"
    THEN EErr(stmt.let_.sp, OrderingViolation)
    ELSE IF stmt.kind = "Text"
    THEN EOk(TextHtml(stmt))
    ELSE Try(args_to_html(stmt.args), LAMBDA args :
         IF stmt.body.kind = "Semi" THEN EOk(NodeHtml(stmt, args.ts, <<>>))
         ELSE Try(emit(macro_path, stmt.body.braces.span, stmt.body.children), LAMBDA children :
              EOk(NodeHtml(stmt, args.ts, children.ts))))

(* ApplyConfig whose DebugPrint arm builds a fresh Config *)
ApplyConfig_fresh(cfg, ast_config) ==
    IF ast_config.kind = "DebugPrint"
    THEN [debug_print |-> TRUE, macro_path |-> DefaultMacroPath]
    ELSE [cfg EXCEPT !.macro_path = ast_config.path]

(* the `match ast_config` of run *)
ApplyConfig(cfg, ast_config) ==
    IF ast_config.kind = "DebugPrint" THEN [cfg EXCEPT !.debug_print = TRUE]
    ELSE [cfg EXCEPT !.macro_path = ast_config.path]

(* println!("{output}"): the text of the tokens *)
RECURSIVE Display(_)
Display(ts) ==
    IF ts = <<>> THEN <<>>
    ELSE LET h == Head(ts) IN
         (IF h.t \in {"{", "("} THEN <<h.t>> \o Display(h.ts) \o <<Close(h.t)>> ELSE <<h.t>>)
         \o Display(Tail(ts))

(* syn::Error::into_compile_error *)
into_compile_error(e) ==
    <<Tok("::core::compile_error", e.sp), Tok("!", e.sp),
      Group("{", e.sp, <<Tok(e.msg, e.sp)>>)>>

-----------------------------------------------------------------------------
(* The inputs the model runs the macro on: four families of token texts.   *)

LetS == <<"let", "p1", "=", "e1", ";">>
TextS == <<"+", "e1", ";">>
NodeS == <<"br", ";">>
Braced(b) == <<"{">> \o b \o <<"}">>

(* A plan names the compound statement used at each nesting depth. *)
KindPlans ==
    {<<"if">>, <<"ifelse">>, <<"match">>, <<"for">>, <<"node">>,
     <<"for", "match">>, <<"node", "ifelse">>, <<"if", "ifelse">>,
     <<"match", "if", "node">>}
KindAt(ks, d) == ks[(d % Len(ks)) + 1]

RECURSIVE GenBlocks(_, _, _), GenStmts(_, _, _), GenArms(_, _, _)

(* blocks of at most n statements, arms and else blocks in all *)
GenBlocks(n, ks, d) ==
    {<<>>} \cup UNION {{s \o b : s \in GenStmts(m, ks, d), b \in GenBlocks(n - m, ks, d)}
                       : m \in 1..n}

GenStmts(m, ks, d) ==
    LET k == KindAt(ks, d)
        inner == GenBlocks(m - 1, ks, d + 1)
    IN {LetS, TextS}
       \cup (IF k = "if" THEN {<<"if", "e1">> \o Braced(b) : b \in inner} ELSE {})
       \cup (IF k = "ifelse" /\ m >= 2
             THEN UNION {{<<"if", "e1">> \o Braced(b1) \o <<"else">> \o Braced(b2)
                          : b1 \in GenBlocks(j, ks, d + 1),
                            b2 \in GenBlocks(m - 2 - j, ks, d + 1)} : j \in 0..(m - 2)}
             ELSE {})
       \cup (IF k = "match"
             THEN {<<"match", "e1">> \o Braced(a) : a \in GenArms(m - 1, ks, d + 1)}
             ELSE {})
       \cup (IF k = "for" THEN {<<"for", "p1", "in", "e2">> \o Braced(b) : b \in inner} ELSE {})
       \cup (IF k = "node" THEN {NodeS} \cup {<<"div">> \o Braced(b) : b \in inner} ELSE {})

GenArms(n, ks, d) ==
    {<<>>} \cup UNION {{g \o <<"=>">> \o Braced(b) \o rest
                        : g \in {<<"p1">>, <<"x", "if", "e2">>},
                          b \in GenBlocks(m - 1, ks, d),
                          rest \in GenArms(n - m, ks, d)} : m \in 1..n}

BlockInputs == UNION {GenBlocks(MaxSize, ks, 0) : ks \in KindPlans}

ArgForms == {<<"a">>, <<"a", "=", "a">>, <<"b", "=", "e1">>, <<"data", "-", "x">>,
             <<"for", "=", "e2">>}

RECURSIVE ArgLists(_)
ArgLists(n) ==
    IF n = 0 THEN {<<>>}
    ELSE ArgLists(n - 1)
         \cup {IF l = <<>> THEN a ELSE l \o <<",">> \o a : l \in ArgLists(n - 1), a \in ArgForms}

NodeArgForms ==
    {<<>>, <<"=", "e1">>}
    \cup {<<"(">> \o l \o <<")">> : l \in ArgLists(MaxArgs)}
    \cup {<<"(">> \o l \o <<",", ")">> : l \in ArgLists(MaxArgs - 1) \ {<<>>}}

ArgInputs ==
    {<<"div">> \o af \o body
     : af \in NodeArgForms, body \in {<<";">>, <<"{", "}">>, <<"{", "+", "e1", ";", "}">>}}
    \cup {<<"my", "::", "div", "(", "a", ")", ";">>, <<"::", "div", ";">>}

Directives == {<<"@", "__debug_print">>, <<"@", "macro_path", "my", "::", "html">>,
               <<"@", "macro_path", "::", "a", "::", "b">>}

RECURSIVE DirectiveLists(_)
DirectiveLists(n) ==
    IF n = 0 THEN {<<>>}
    ELSE DirectiveLists(n - 1) \cup {l \o c : l \in DirectiveLists(n - 1), c \in Directives}

ConfigBodies ==
    {<<>>,
     TextS,
     <<"if", "e1", "{", "div", "{", "+", "e1", ";", "}", "}">>,
     LetS \o <<"match", "e1", "{", "p1", "=>", "{", "for", "p1", "in", "e1", "{", "}", "}", "}">>,
     TextS \o LetS}

ConfigInputs == {l \o b : l \in DirectiveLists(MaxConfigs), b \in ConfigBodies}

(* Inputs the grammar may reject: a sample with one token left out. *)
Samples ==
    {<<"@", "__debug_print", "@", "macro_path", "my", "::", "html">> \o LetS \o TextS,
     <<"if", "e1", "{", "+", "e1", ";", "}", "else", "{", "br", ";", "}">>,
     <<"match", "e1", "{", "p1", "if", "e2", "=>", "{", "+", "e1", ";", "}", "}">>,
     <<"for", "p1", "in", "e1", "{", "div", "(", "a", ",", "b", "=", "e1", ",",
       "data", "-", "x", "=", "e2", ")", "{", "}", "}">>,
     <<"my", "::", "div", "=", "e1", ";">>}

DropAt(s, i) == SubSeq(s, 1, i - 1) \o SubSeq(s, i + 1, Len(s))

DroppedInputs ==
    UNION {{DropAt(s, i) : i \in {j \in 1..Len(s) : s[j] \notin {"{", "}", "(", ")"}}}
           : s \in Samples}

(* Inputs with Lets out of place in several Blocks: statements before, a *)
(* compound statement with two bodies, statements after.                 *)
OrderBodies == {<<>>, LetS, TextS, TextS \o LetS, LetS \o TextS \o LetS}

OrderWraps(b1, b2) ==
    {<<"if", "e1">> \o Braced(b1) \o <<"else">> \o Braced(b2),
     <<"if", "e1">> \o Braced(b1) \o <<"if", "e2">> \o Braced(b2),
     <<"match", "e1">> \o Braced(<<"p1", "=>">> \o Braced(b1) \o <<"x", "if", "e2", "=>">> \o Braced(b2)),
     <<"for", "p1", "in", "e2">> \o Braced(b1 \o <<"div">> \o Braced(b2)),
     <<"div", "(", "a", ")">> \o Braced(b1 \o <<"if", "e1">> \o Braced(b2) \o b1)}

OrderInputs ==
    UNION {{pre \o w \o post : pre \in {<<>>, LetS, TextS \o LetS},
                               post \in {<<>>, LetS},
                               w \in OrderWraps(b1, b2)}
           : b1 \in OrderBodies, b2 \in OrderBodies}

Inputs == BlockInputs \cup ArgInputs \cup ConfigInputs \cup DroppedInputs \cup OrderInputs

-----------------------------------------------------------------------------
(* defy and run, one action per step. *)

(* a value run has not computed yet *)
Pending == [ok |-> FALSE, pending |-> TRUE]

Init ==
    /\ src \in Inputs
    /\ pc = "parse"
    /\ input = Pending
    /\ configs = <<>>
    /\ config = Pending
    /\ output = Pending
    /\ stdout = <<>>
    /\ ret = <<>>

(* let input: ast::Input = syn::parse2(ts)?; and the Config run starts with *)
ParseOk ==
    /\ pc = "parse"
    /\ LET r == parse2(Lex(src)) IN
       /\ r.ok
       /\ input' = r
       /\ configs' = r.v.configs
    /\ config' = [debug_print |-> FALSE, macro_path |-> DefaultMacroPath]
    /\ pc' = "configs"
    /\ UNCHANGED <<src, output, stdout, ret>>

ParseErr ==
    /\ pc = "parse"
    /\ LET r == parse2(Lex(src)) IN
       /\ ~r.ok
       /\ input' = r
    /\ pc' = "failed"
    /\ UNCHANGED <<src, configs, config, output, stdout, ret>>

(* one turn of `for ast_config in input.configs` *)
ConfigDebugPrint ==
    /\ pc = "configs"
    /\ configs # <<>>
    /\ Head(configs).kind = "DebugPrint"
    /\ config' = ApplyConfig(config, Head(configs))
    /\ configs' = Tail(configs)
    /\ UNCHANGED <<src, pc, input, output, stdout, ret>>

ConfigMacroPath ==
    /\ pc = "configs"
    /\ configs # <<>>
    /\ Head(configs).kind = "MacroPath"
    /\ config' = ApplyConfig(config, Head(configs))
    /\ configs' = Tail(configs)
    /\ UNCHANGED <<src, pc, input, output, stdout, ret>>

(* let output = emit(&config.macro_path, Span::call_site(), input.nodes)?; *)
EmitOk ==
    /\ pc = "configs"
    /\ configs = <<>>
    /\ LET r == emit(config.macro_path, call_site, input.v.nodes) IN
       /\ r.ok
       /\ output' = r
    /\ pc' = "emitted"
    /\ UNCHANGED <<src, input, configs, config, stdout, ret>>

EmitErr ==
    /\ pc = "configs"
    /\ configs = <<>>
    /\ LET r == emit(config.macro_path, call_site, input.v.nodes) IN
       /\ ~r.ok
       /\ output' = r
    /\ pc' = "failed"
    /\ UNCHANGED <<src, input, configs, config, stdout, ret>>

(* if config.debug_print { println!("{output}") }; Ok(output) *)
DebugPrint ==
    /\ pc = "emitted"
    /\ config.debug_print
    /\ stdout' = Display(output.ts)
    /\ pc' = "ok"
    /\ UNCHANGED <<src, input, configs, config, output, ret>>

NoDebugPrint ==
    /\ pc = "emitted"
    /\ ~config.debug_print
    /\ pc' = "ok"
    /\ UNCHANGED <<src, input, configs, config, output, stdout, ret>>

(* the Err the `?` of run returned *)
RunError == IF ~input.ok THEN input.err[1] ELSE output.err[1]

(* the for loop of run over input.configs, as one fold *)
RECURSIVE ResolveConfig(_, _)
ResolveConfig(cfg, ast_configs) ==
    IF ast_configs = <<>> THEN cfg
    ELSE ResolveConfig(ApplyConfig(cfg, Head(ast_configs)), Tail(ast_configs))

(* run as a function of the token stream: what the steps above compute.  *)
(* The result carries the resolved Config next to the Result.            *)
run(ts) ==
    LET parsed == parse2(ts) IN
    IF ~parsed.ok THEN [ok |-> FALSE, ts |-> <<>>, err |-> parsed.err, config |-> Pending]
    ELSE LET cfg == ResolveConfig([debug_print |-> FALSE, macro_path |-> DefaultMacroPath],
                                  parsed.v.configs)
             out == emit(cfg.macro_path, call_site, parsed.v.nodes)
         IN [ok |-> out.ok, ts |-> out.ts, err |-> out.err, config |-> cfg]

(* run(ts.into()).unwrap_or_else(Error::into_compile_error).into() *)
DefyOk ==
    /\ pc = "ok"
    /\ ret' = output.ts
    /\ pc' = "done"
    /\ UNCHANGED <<src, input, configs, config, output, stdout>>

DefyErr ==
    /\ pc = "failed"
    /\ ret' = into_compile_error(RunError)
    /\ pc' = "done"
    /\ UNCHANGED <<src, input, configs, config, output, stdout>>

Next ==
    \/ ParseOk
    \/ ParseErr
    \/ ConfigDebugPrint
    \/ ConfigMacroPath
    \/ EmitOk
    \/ EmitErr
    \/ DebugPrint
    \/ NoDebugPrint
    \/ DefyOk
    \/ DefyErr

Spec == Init /\ [][Next]_vars

-----------------------------------------------------------------------------
(* Reading the parsed Input and the returned token stream. *)

Range(seq) == {seq[k] : k \in DOMAIN seq}

Done == pc = "done"
Compiled == pc = "done" /\ input.ok /\ output.ok

(* the Blocks directly under a statement, each with the span of its braces *)
ChildBlocks(stmt) ==
    IF stmt.kind = "If"
    THEN {[span |-> stmt.braces.span, nodes |-> stmt.body]}
         \cup {[span |-> e.braces.span, nodes |-> e.body] : e \in Range(stmt.else_)}
    ELSE IF stmt.kind = "Match"
    THEN {[span |-> a.braces.span, nodes |-> a.body] : a \in Range(stmt.arms)}
    ELSE IF stmt.kind = "For"
    THEN {[span |-> stmt.braces.span, nodes |-> stmt.body]}
    ELSE IF stmt.kind = "Node" /\ stmt.body.kind = "Braced"
    THEN {[span |-> stmt.body.braces.span, nodes |-> stmt.body.children]}
    ELSE {}

RECURSIVE BlocksUnder(_)
BlocksUnder(b) ==
    {b} \cup UNION {UNION {BlocksUnder(c) : c \in ChildBlocks(st)} : st \in Range(b.nodes.stmts)}

(* every Block of the parsed Input, the root with the span of the call site *)
AllBlocks == BlocksUnder([span |-> call_site, nodes |-> input.v.nodes])
AllStmts == UNION {Range(b.nodes.stmts) : b \in AllBlocks}

(* the length of the leading contiguous run of Lets *)
LeadRun(stmts) ==
    CHOOSE n \in 0..Len(stmts) :
        /\ \A k \in 1..n : stmts[k].kind = "Let"
        /\ n = Len(stmts) \/ stmts[n + 1].kind # "Let"

(* the positions of the Lets of a Block that follow a non-Let of that Block *)
MisplacedIn(b) ==
    {b.nodes.stmts[j].let_.sp :
        j \in {j \in 1..Len(b.nodes.stmts) :
                 /\ b.nodes.stmts[j].kind = "Let"
                 /\ \E i \in 1..(j - 1) : b.nodes.stmts[i].kind # "Let"}}

MisplacedLets == UNION {MisplacedIn(b) : b \in AllBlocks}

(* m tokens of the source from position s on, as the front end spans them *)
SourceTokens(s, m) == [j \in 1..m |-> Tok(src[s + j - 1], s + j - 1)]

(* every token sequence of a token tree: the stream and the inside of each group *)
RECURSIVE Seqs(_)
Seqs(ts) ==
    {ts} \cup UNION {Seqs(ts[k].ts) : k \in {k \in 1..Len(ts) : ts[k].t \in {"{", "("}}}

(* the sequences of the returned stream that hold the fragment call of the *)
(* Block whose braces have this span                                       *)
CallsOf(span) == {seq \in Seqs(ret) : \E k \in 1..Len(seq) : seq[k] = Tok("!", span)}

-----------------------------------------------------------------------------
(* C1: emit fails with "let statements must precede all other statements   *)
(* in a block" exactly when some Block of the Input, at any depth, has a   *)
(* Let after a non-Let of that same Block, and the error is positioned at  *)
(* such a Let; a Let in the leading run of a nested Block is no violation. *)
C1_OrderingViolationIffMisplacedLet ==
    (Done /\ input.ok) =>
        /\ ~output.ok <=> MisplacedLets # {}
        /\ ~output.ok =>
              /\ output.err[1].msg = OrderingViolation
              /\ output.err[1].sp \in MisplacedLets
              /\ src[output.err[1].sp] = "let"

(* a nested Block with a Let in its leading run and a misplaced Let, under *)
(* a root whose own Lets are in order                                     *)
C1_Witness ==
    /\ Done /\ input.ok /\ ~output.ok
    /\ MisplacedIn([span |-> call_site, nodes |-> input.v.nodes]) = {}
    /\ \E b \in AllBlocks : b.span # call_site /\ LeadRun(b.nodes.stmts) >= 1
                            /\ output.err[1].sp \in MisplacedIn(b)

(* C2: in a successful compilation every Block's output is the Lets of its *)
(* leading run, unchanged and in order, then the one fragment call of the  *)
(* Block; as many bindings as the run is long, none inside the call.       *)
C2_Shape(seq, b) ==
    LET n == LeadRun(b.nodes.stmts)
        L == Len(config.macro_path)
    IN /\ Len(seq) = 5 * n + L + 2
       /\ \A k \in 1..n :
             SubSeq(seq, 5 * (k - 1) + 1, 5 * k) = SourceTokens(b.nodes.stmts[k].let_.sp, 5)
       /\ Cardinality({k \in 1..Len(seq) : seq[k].t = "let"}) = n
       /\ SubSeq(seq, 5 * n + 1, 5 * n + L) = config.macro_path
       /\ seq[5 * n + L + 1] = Tok("!", b.span)
       /\ seq[5 * n + L + 2].t = "{"
       /\ \A k \in 1..Len(seq[5 * n + L + 2].ts) : seq[5 * n + L + 2].ts[k].t # "let"

C2_LeadingLetsBecomeBindings ==
    Compiled =>
        \A b \in AllBlocks :
            /\ Cardinality(CallsOf(b.span)) = 1
            /\ \A seq \in CallsOf(b.span) : C2_Shape(seq, b)

(* a nested Block with two leading Lets and a statement after them *)
C2_Witness ==
    /\ Compiled
    /\ \E b \in AllBlocks : /\ b.span # call_site
                            /\ LeadRun(b.nodes.stmts) = 2
                            /\ Len(b.nodes.stmts) = 3

(* C3: on an error the macro returns one diagnostic and nothing else: no   *)
(* binding, no fragment call, nothing printed; an Input with a misplaced   *)
(* Let never compiles.                                                     *)
DiagnosticOnly ==
    /\ Len(ret) = 3
    /\ ret[1].t = "::core::compile_error"
    /\ ret[2].t = "!"
    /\ ret[3].t = "{"
    /\ Len(ret[3].ts) = 1
    /\ ret[3].ts[1].t \in {SyntaxError, OrderingViolation}
    /\ ret[3].ts[1].t = RunError.msg
    /\ \A k \in 1..3 : ret[k].sp = RunError.sp

C3_ErrorGivesOnlyDiagnostic ==
    Done =>
        /\ (~input.ok \/ ~output.ok) => (DiagnosticOnly /\ stdout = <<>>)
        /\ (input.ok /\ MisplacedLets # {}) => DiagnosticOnly

(* an OrderingViolation met after statements that lowered without error, *)
(* under a debug-print directive                                          *)
C3_Witness ==
    /\ Done /\ input.ok /\ ~output.ok
    /\ config.debug_print
    /\ \E k \in 1..Len(input.v.nodes.stmts) :
          /\ input.v.nodes.stmts[k].kind = "Text"
          /\ input.v.nodes.stmts[k].add.sp < output.err[1].sp

(* the inside of the braces the conditional of an If statement is written in *)
Conditionals(st) == {seq \in Seqs(ret) : seq # <<>> /\ seq[1] = st.if_}

(* C4: the conditional compiled from an If always has an else branch.  For *)
(* an If without an Else, at any depth, that branch is a call of the       *)
(* resolved macro path with empty braces, never absent and never empty     *)
(* braces alone; for an If with an Else it is the fragment call compiled   *)
(* from the Else Block.                                                    *)
C4_Shape(seq, st) ==
    LET L == Len(config.macro_path) IN
    /\ Len(seq) = 5
    /\ seq[2] = st.expr
    /\ seq[3].t = "{" /\ seq[3].ts \in CallsOf(st.braces.span)
    /\ seq[4].t = "else"
    /\ seq[5].t = "{"
    /\ IF st.else_ = None
       THEN /\ Len(seq[5].ts) = L + 2
            /\ SubSeq(seq[5].ts, 1, L) = config.macro_path
            /\ seq[5].ts[L + 1].t = "!"
            /\ seq[5].ts[L + 2].t = "{" /\ seq[5].ts[L + 2].ts = <<>>
       ELSE /\ seq[4] = st.else_[1].else_
            /\ seq[5].ts \in CallsOf(st.else_[1].braces.span)

C4_ElseBranchIsFragmentCall ==
    Compiled =>
        \A st \in {st \in AllStmts : st.kind = "If"} :
            /\ Cardinality(Conditionals(st)) = 1
            /\ \A seq \in Conditionals(st) : C4_Shape(seq, st)

(* an If without an Else whose body holds an If with an Else *)
C4_Witness ==
    /\ Compiled
    /\ \E st \in AllStmts :
          /\ st.kind = "If" /\ st.else_ = None
          /\ \E nested \in Range(st.body.stmts) : nested.kind = "If" /\ nested.else_ # None

(* Reading a Node back from the returned stream. *)

(* where the opening tag of a Node is: the sequence and the place of its `<` *)
OpenTags(st) ==
    LET n == Len(st.element) IN
    UNION {{<<seq, k>> : k \in {k \in 1..(Len(seq) - n) :
                                  /\ seq[k].t = "<"
                                  /\ SubSeq(seq, k + 1, k + n) = st.element}}
           : seq \in Seqs(ret)}

(* where its closing tag is *)
CloseTags(st) ==
    LET n == Len(st.element) IN
    UNION {{<<seq, k>> : k \in {k \in 1..(Len(seq) - n - 1) :
                                  /\ seq[k].t = "<" /\ seq[k + 1].t = "/"
                                  /\ SubSeq(seq, k + 2, k + n + 1) = st.element}}
           : seq \in Seqs(ret)}

(* the first `/` or `>` from position a on: the end of the opening tag *)
TagEnd(seq, a) ==
    IF \E p \in a..Len(seq) : seq[p].t \in {"/", ">"}
    THEN CHOOSE p \in a..Len(seq) :
            /\ seq[p].t \in {"/", ">"}
            /\ \A q \in a..(p - 1) : seq[q].t \notin {"/", ">"}
    ELSE Len(seq) + 1

(* the attributes: what stands between the element and the end of the tag *)
Attrs(seq, k, st) ==
    SubSeq(seq, k + Len(st.element) + 1, TagEnd(seq, k + Len(st.element) + 1) - 1)

(* the attributes one by one: each ends with its braces *)
RECURSIVE Chunks(_)
Chunks(region) ==
    IF region = <<>> THEN <<>>
    ELSE LET g == IF \E p \in 1..Len(region) : region[p].t = "{"
                  THEN CHOOSE p \in 1..Len(region) :
                          /\ region[p].t = "{"
                          /\ \A q \in 1..(p - 1) : region[q].t # "{"
                  ELSE Len(region)
         IN <<SubSeq(region, 1, g)>> \o Chunks(SubSeq(region, g + 1, Len(region)))

NamedNodes == {st \in AllStmts : st.kind = "Node" /\ st.args.kind = "Named"}

(* the attributes of a Node with a Named argument list, one per argument *)
AttrsOf(st) == {Chunks(Attrs(p[1], p[2], st)) : p \in OpenTags(st)}

(* `name = {value}`, where a shorthand argument has its own name as value *)
NamedForm(arg) ==
    Display(arg.ident) \o <<"=", "{">>
    \o (IF arg.value = None THEN Display(arg.ident) ELSE <<arg.value[1][2].t>>)
    \o <<"}">>

(* C5 as stated: every Named argument, shorthand or not, is emitted as     *)
(* `name = { value }`, so shorthand `a` gives what `a = a` gives.          *)
C5_EveryArgIsNameEqValue ==
    Compiled =>
        \A st \in NamedNodes : \A chunks \in AttrsOf(st) :
            /\ Len(chunks) = Len(st.args.args)
            /\ \A i \in 1..Len(chunks) : Display(chunks[i]) = NamedForm(st.args.args[i])

(* C5: an argument with an explicit value is emitted as `name = {value}`;  *)
(* a shorthand argument is emitted as `{name}` alone, braces around a      *)
(* reference to the binding of the argument's own name, with no `name =`   *)
(* before it, so shorthand `a` and `a = a` give different tokens.          *)
C5_ArgForm(chunk, arg) ==
    IF arg.value = None
    THEN /\ Len(chunk) = 1
         /\ chunk[1].t = "{" /\ chunk[1].ts = arg.ident
         /\ Display(chunk) # NamedForm(arg)
    ELSE /\ chunk = arg.ident \o <<Tok("=", arg.value[1][1].sp),
                                   Group("{", arg.value[1][1].sp, <<arg.value[1][2]>>)>>
         /\ Display(chunk) = NamedForm(arg)

C5_ShorthandIsBracedName ==
    Compiled =>
        \A st \in NamedNodes :
            /\ Cardinality(OpenTags(st)) = 1
            /\ \A chunks \in AttrsOf(st) :
                  /\ Len(chunks) = Len(st.args.args)
                  /\ \A i \in 1..Len(chunks) : C5_ArgForm(chunks[i], st.args.args[i])

(* a Node with a shorthand argument `a` and an argument with a value *)
C5_Witness ==
    /\ Compiled
    /\ \E st \in NamedNodes :
          /\ \E i \in 1..Len(st.args.args) : st.args.args[i].value = None
          /\ \E i \in 1..Len(st.args.args) : st.args.args[i].value # None

(* the place of an attribute's name: before the `=`, or inside the braces *)
ChunkName(chunk) ==
    IF Len(chunk) = 1 THEN chunk[1].ts ELSE SubSeq(chunk, 1, Len(chunk) - 2)

(* C6: the attributes of a Node with Named arguments are the arguments in  *)
(* the order written, one attribute per argument, shorthand or not: the    *)
(* name of attribute i is the name tokens of argument i.                   *)
C6_AttributesInWrittenOrder ==
    Compiled =>
        \A st \in NamedNodes :
            /\ Cardinality(OpenTags(st)) = 1
            /\ \A chunks \in AttrsOf(st) :
                  /\ Len(chunks) = Len(st.args.args)
                  /\ \A i \in 1..Len(chunks) : ChunkName(chunks[i]) = st.args.args[i].ident

(* three arguments, the first two with different names, shorthand and not *)
C6_Witness ==
    /\ Compiled
    /\ \E st \in NamedNodes :
          /\ Len(st.args.args) = 3
          /\ Display(st.args.args[1].ident) # Display(st.args.args[2].ident)
          /\ \E i \in 1..3 : st.args.args[i].value = None
          /\ \E i \in 1..3 : st.args.args[i].value # None

(* every `!` of the returned stream: the sequence it is in and its place *)
Bangs ==
    UNION {{<<seq, k>> : k \in {k \in 1..Len(seq) : seq[k].t = "!"}} : seq \in Seqs(ret)}

ElselessIfs == {st \in AllStmts : st.kind = "If" /\ st.else_ = None}

MacroPathConfigs ==
    {k \in 1..Len(input.v.configs) : input.v.configs[k].kind = "MacroPath"}

(* C7: every fragment call of one output names the same resolved macro     *)
(* path: there is one call per Block (the root and every nested Block) and *)
(* one per If without Else, and each is that path, `!`, braces.  The path  *)
(* is the built-in ::yew::html when no macro_path directive is given and   *)
(* the path of the (last) macro_path directive otherwise.                  *)
C7_OneResolvedMacroPath ==
    Compiled =>
        LET L == Len(config.macro_path) IN
        /\ \A b \in Bangs :
              /\ b[2] > L /\ b[2] < Len(b[1])
              /\ SubSeq(b[1], b[2] - L, b[2] - 1) = config.macro_path
              /\ b[1][b[2] + 1].t = "{"
        /\ Cardinality(Bangs) = Cardinality(AllBlocks) + Cardinality(ElselessIfs)
        /\ \A blk \in AllBlocks : CallsOf(blk.span) # {}
        /\ IF MacroPathConfigs = {}
           THEN config.macro_path = DefaultMacroPath
           ELSE \E k \in MacroPathConfigs :
                   /\ config.macro_path = input.v.configs[k].path
                   /\ \A j \in MacroPathConfigs : j <= k

(* a macro_path directive over an If without Else that holds a nested Block *)
C7_Witness ==
    /\ Compiled
    /\ MacroPathConfigs # {}
    /\ ElselessIfs # {}
    /\ Cardinality(AllBlocks) >= 3

(* Reordering the directives in the source text. *)

(* the last source position of directive k *)
ConfigEnd(c) == IF c.kind = "DebugPrint" THEN c.kw.sp ELSE c.path[Len(c.path)].sp

(* the source tokens of directive k *)
ConfigSource(k) == SubSeq(src, input.v.configs[k].at.sp, ConfigEnd(input.v.configs[k]))

(* the source after the directives *)
BodySource ==
    IF input.v.configs = <<>> THEN src
    ELSE SubSeq(src, ConfigEnd(input.v.configs[Len(input.v.configs)]) + 1, Len(src))

Perms(n) == {f \in [1..n -> 1..n] : \A a, b \in 1..n : f[a] = f[b] => a = b}

(* the source with the directives in the order f *)
Permuted(f) == Flatten([k \in 1..Len(input.v.configs) |-> ConfigSource(f[k])]) \o BodySource

(* run on that source gives the settings and the output this run gave *)
SameAsPermuted(f) ==
    LET r == run(Lex(Permuted(f))) IN
    /\ r.ok = output.ok
    /\ r.config.debug_print = config.debug_print
    /\ Display(r.config.macro_path) = Display(config.macro_path)
    /\ Display(r.ts) = Display(output.ts)

(* C8 as stated: whatever the directives are, their order does not matter  *)
(* to the resolved settings or to the compiled output.                     *)
C8_AnyOrderSameSettings ==
    (Done /\ input.ok) => \A f \in Perms(Len(input.v.configs)) : SameAsPermuted(f)

(* C8: the order of the directives does not matter when the macro_path     *)
(* directives among them all name the same path (so when there is at most  *)
(* one); the macro_path directives are last-one-wins, the resolved path is *)
(* that of the last of them.                                               *)
C8_OrderMattersOnlyBetweenMacroPaths ==
    (Done /\ input.ok) =>
        /\ (\A j, k \in MacroPathConfigs :
               Display(input.v.configs[j].path) = Display(input.v.configs[k].path))
           => \A f \in Perms(Len(input.v.configs)) : SameAsPermuted(f)
        /\ \A k \in MacroPathConfigs :
              (\A j \in MacroPathConfigs : j <= k)
              => config.macro_path = input.v.configs[k].path
        /\ config.debug_print
           <=> \E k \in 1..Len(input.v.configs) : input.v.configs[k].kind = "DebugPrint"

(* a macro_path and a __debug_print directive over a body that compiles *)
C8_Witness ==
    /\ Compiled
    /\ Len(input.v.configs) >= 2
    /\ Cardinality(MacroPathConfigs) = 1
    /\ config.debug_print
    /\ input.v.nodes.stmts # <<>>

(* C9: the attributes of a Node are args_to_html of its arguments alone,   *)
(* whichever body it has.  With `;` the tag ends `/>` and the element has  *)
(* no closing tag and no children; with braces the opening tag is followed *)
(* by one pair of braces holding the fragment call compiled from the       *)
(* children Block, also when that Block is empty, and then by the closing  *)
(* tag of the same element.                                                *)
C9_Shape(seq, k, st) ==
    LET n == Len(st.element)
        p == TagEnd(seq, k + n + 1)
    IN /\ Attrs(seq, k, st) = args_to_html(st.args).ts
       /\ IF st.body.kind = "Semi"
          THEN /\ p + 1 <= Len(seq)
               /\ seq[p].t = "/" /\ seq[p + 1].t = ">"
               /\ CloseTags(st) = {}
          ELSE /\ p + n + 4 <= Len(seq)
               /\ seq[p].t = ">"
               /\ seq[p + 1].t = "{"
               /\ seq[p + 1].ts \in CallsOf(st.body.braces.span)
               /\ CloseTags(st) = {<<seq, p + 2>>}
               /\ seq[p + n + 4].t = ">"

C9_NodeBodyShapes ==
    Compiled =>
        \A st \in {st \in AllStmts : st.kind = "Node"} :
            /\ Cardinality(OpenTags(st)) = 1
            /\ \A o \in OpenTags(st) : C9_Shape(o[1], o[2], st)

(* a Node with arguments and an empty children Block *)
C9_Witness ==
    /\ Compiled
    /\ \E st \in NamedNodes :
          /\ st.args.args # <<>>
          /\ st.body.kind = "Braced"
          /\ st.body.children.stmts = <<>>

(* Reading the children of a fragment call. *)

(* the first `>` from position a on *)
FirstGt(body, a) ==
    IF \E p \in a..Len(body) : body[p].t = ">"
    THEN CHOOSE p \in a..Len(body) :
            /\ body[p].t = ">"
            /\ \A q \in a..(p - 1) : body[q].t # ">"
    ELSE Len(body)

(* the length of the first child of a run of children: one pair of braces, *)
(* or a tag up to its `/>`, or up to the `>` of its closing tag            *)
ChildLen(body) ==
    IF body[1].t # "<" THEN 1
    ELSE LET p == FirstGt(body, 1) IN
         IF p < 2 \/ body[p - 1].t = "/" THEN p ELSE FirstGt(body, p + 1)

RECURSIVE SplitChildren(_)
SplitChildren(body) ==
    IF body = <<>> THEN <<>>
    ELSE <<SubSeq(body, 1, ChildLen(body))>>
         \o SplitChildren(SubSeq(body, ChildLen(body) + 1, Len(body)))

(* the source token a child expression is known by *)
ChildKey(child) ==
    IF child[1].t = "{" THEN (IF child[1].ts = <<>> THEN child[1] ELSE child[1].ts[1])
    ELSE IF Len(child) >= 2 THEN child[2] ELSE child[1]

(* the source token a statement is known by *)
KeyToken(st) ==
    IF st.kind = "If" THEN st.if_
    ELSE IF st.kind = "Match" THEN st.match_
    ELSE IF st.kind = "For" THEN st.for_
    ELSE IF st.kind = "Text" THEN st.expr
    ELSE IF st.kind = "Node" THEN st.element[1]
    ELSE st.let_

(* the braces of the fragment call of the Block with this span *)
CallBraces(span) ==
    UNION {{seq[k + 1] : k \in {k \in 1..(Len(seq) - 1) : seq[k] = Tok("!", span)}}
           : seq \in Seqs(ret)}

(* C10: the fragment call of a Block holds `<>`, then one child expression *)
(* per statement after the leading Let run, in the order of the            *)
(* statements (child i is made from statement i of the remainder), then    *)
(* `</>`; with no statement after the Lets it holds `<></>` alone.         *)
C10_Shape(g, b) ==
    LET n == LeadRun(b.nodes.stmts)
        m == Len(b.nodes.stmts) - n
        children == SplitChildren(SubSeq(g.ts, 3, Len(g.ts) - 3))
    IN /\ g.t = "{" /\ Len(g.ts) >= 5
       /\ <<g.ts[1].t, g.ts[2].t>> = <<"<", ">">>
       /\ <<g.ts[Len(g.ts) - 2].t, g.ts[Len(g.ts) - 1].t, g.ts[Len(g.ts)].t>> = <<"<", "/", ">">>
       /\ Len(children) = m
       /\ \A i \in 1..m : ChildKey(children[i]) = KeyToken(b.nodes.stmts[n + i])
       /\ m = 0 => Len(g.ts) = 5

C10_ChildrenInDocumentOrder ==
    Compiled =>
        \A b \in AllBlocks :
            /\ Cardinality(CallBraces(b.span)) = 1
            /\ \A g \in CallBraces(b.span) : C10_Shape(g, b)

(* a nested Block with a leading Let and two statements of different kinds *)
(* after it, one of them a Node                                            *)
C10_Witness ==
    /\ Compiled
    /\ \E b \in AllBlocks :
          /\ b.span # call_site
          /\ LeadRun(b.nodes.stmts) = 1
          /\ Len(b.nodes.stmts) = 3
          /\ b.nodes.stmts[2].kind # b.nodes.stmts[3].kind
          /\ \E k \in 2..3 : b.nodes.stmts[k].kind = "Node"

(* The statements stmt_to_html is called on, in the order of the calls,    *)
(* each named by the position of its first token.  A `?` that returns an  *)
(* Err ends the function, so what follows it is not evaluated.            *)
RECURSIVE EmitVisits(_, _), NodesVisits(_, _), StmtVisits(_, _), ArmsVisits(_, _)

(* emit: the leading Lets are taken by the peek loop, the rest is mapped *)
EmitVisits(macro_path, nodes) ==
    NodesVisits(macro_path,
                SubSeq(nodes.stmts, LeadingLets(nodes.stmts) + 1, Len(nodes.stmts)))

(* the lazy map under collect::<Result<_>>(): no call after the first Err *)
NodesVisits(macro_path, stmts) ==
    IF stmts = <<>> THEN <<>>
    ELSE <<KeyToken(Head(stmts)).sp>>
         \o StmtVisits(macro_path, Head(stmts))
         \o (IF stmt_to_html(macro_path, Head(stmts)).ok
             THEN NodesVisits(macro_path, Tail(stmts)) ELSE <<>>)

(* the calls of emit inside stmt_to_html, in the order written *)
StmtVisits(macro_path, stmt) ==
    IF stmt.kind = "If" /\ stmt.else_ # None
    THEN EmitVisits(macro_path, stmt.body)
         \o (IF emit(macro_path, stmt.braces.span, stmt.body).ok
             THEN EmitVisits(macro_path, stmt.else_[1].body) ELSE <<>>)
    ELSE IF stmt.kind \in {"If", "For"} THEN EmitVisits(macro_path, stmt.body)
    ELSE IF stmt.kind = "Match" THEN ArmsVisits(macro_path, stmt.arms)
    ELSE IF stmt.kind = "Node" /\ stmt.body.kind = "Braced"
    THEN EmitVisits(macro_path, stmt.body.children)
    ELSE <<>>

ArmsVisits(macro_path, arms) ==
    IF arms = <<>> THEN <<>>
    ELSE EmitVisits(macro_path, Head(arms).body)
         \o (IF emit(macro_path, Head(arms).braces.span, Head(arms).body).ok
             THEN ArmsVisits(macro_path, Tail(arms)) ELSE <<>>)

(* the statements of the Input outside the leading Let run of their Block *)
AfterLeadRun ==
    UNION {{b.nodes.stmts[k] : k \in (LeadRun(b.nodes.stmts) + 1)..Len(b.nodes.stmts)}
           : b \in AllBlocks}

(* C11: of several misplaced Lets, in one Block or in several at any depth, *)
(* the one reported is the first in depth-first document order, which is   *)
(* the order of the source positions: a nested Block's before one after    *)
(* the enclosing statement, an if body's before the else body's, the arms' *)
(* in the order written.  Lowering visits the statements in that order and *)
(* stops at that Let: it is the last statement visited and no statement    *)
(* after it is visited.                                                    *)
C11_FirstMisplacedLetInDocumentOrder ==
    (Done /\ input.ok /\ ~output.ok) =>
        LET e == output.err[1].sp
            v == EmitVisits(config.macro_path, input.v.nodes)
        IN /\ output.err[1].msg = OrderingViolation
           /\ e \in MisplacedLets
           /\ \A m \in MisplacedLets : e <= m
           /\ v # <<>> /\ v[Len(v)] = e
           /\ \A j, k \in 1..Len(v) : j < k => v[j] < v[k]
           /\ Range(v) = {KeyToken(st).sp : st \in {st \in AfterLeadRun : KeyToken(st).sp <= e}}
           /\ \A k \in 1..Len(ret) : ret[k].sp = e

(* three misplaced Lets: the one reported in an if body, one in the else *)
(* body and one in the root after the If                                 *)
C11_Witness ==
    /\ Done /\ input.ok /\ ~output.ok
    /\ \E st \in Range(input.v.nodes.stmts) :
          /\ st.kind = "If" /\ st.else_ # None
          /\ output.err[1].sp \in MisplacedIn([span |-> st.braces.span, nodes |-> st.body])
          /\ MisplacedIn([span |-> st.else_[1].braces.span, nodes |-> st.else_[1].body]) # {}
          /\ \E m \in MisplacedIn([span |-> call_site, nodes |-> input.v.nodes]) :
                m > st.else_[1].else_.sp

=============================================================================
